---- MODULE Spec2Model ----
(***************************************************************************)
(* Model of the Sonna voice-assistant backend (smitsp11/sonna-mlh):        *)
(* the session store operations of services/conversation_service.py, the   *)
(* response generator and the voice turn pipeline of                       *)
(* routers/conversation.py, and the synthesis endpoint of routers/tts.py.  *)
(*                                                                         *)
(* Text is a sequence of one-character strings, so that strip(), slicing   *)
(* and startswith() are computed as Python computes them.  Time is an      *)
(* integer clock whose unit is one hour.                                   *)
(***************************************************************************)
EXTENDS Integers, Sequences, FiniteSets, TLC

\* ------------------------------------------------------------------ bounds

\* Number of voice turns (requests to /conversation/voice-loop) considered.
NTurns == 2

\* The clock runs from 0 to MaxTime hours while voice turns are served.
MaxTime == 3

\* Direct calls of the store operations: the clock runs to MaxStoreTime hours,
\* the tables hold at most MaxConvs conversations and MaxMsgs messages.
MaxStoreTime == 4

MaxConvs == 3

MaxMsgs == 2

\* Direct calls by one user: at most MaxSessionMsgs messages.
MaxSessionMsgs == 3

\* The cleanup step invoked on its own: at most MaxCleanups times in a row.
MaxCleanups == 3

\* Direct calls of the response generator: contexts of up to MaxContext entries.
MaxContext == 10

\* ------------------------------------------------------- program constants

\* timedelta(hours=2) in get_or_create_active_conversation
ACTIVE_WINDOW == 2

\* first_message[:50] in generate_conversation_title
TITLE_MAX == 50

\* conversation_context[-5:] in generate_gemini_response
HISTORY_WINDOW == 5

\* get_conversation_context(db, conversation_id, limit=10) in the voice loop
CONTEXT_LIMIT == 10

\* user_text[:500], response_text[:500] in the response headers
HEADER_CAP == 500

\* The single default user of get_or_create_default_user, and the legacy
\* "Sonna User" row it migrates from (another user of the store).
DEFAULT_USER == 1

OTHER_USER == 2

Users == {DEFAULT_USER, OTHER_USER}

Turns == 1..NTurns

None == 0

\* --------------------------------------------------------------------- text

Whitespace == {" ", "\n", "\t"}

Min(S) == CHOOSE x \in S : \A y \in S : x <= y

Max(S) == CHOOSE x \in S : \A y \in S : x >= y

\* str.strip(): drops leading and trailing whitespace
Strip(s) ==
  LET keep == {i \in 1..Len(s) : s[i] \notin Whitespace}
  IN  IF keep = {} THEN <<>> ELSE SubSeq(s, Min(keep), Max(keep))

\* s[:n]
Prefix(s, n) == SubSeq(s, 1, IF Len(s) < n THEN Len(s) ELSE n)

\* s[-n:]
Suffix(s, n) == SubSeq(s, IF Len(s) < n THEN 1 ELSE Len(s) - n + 1, Len(s))

\* s.startswith(p)
StartsWith(s, p) == Len(s) >= Len(p) /\ SubSeq(s, 1, Len(p)) = p

Digit(d) == <<"0","1","2","3","4","5","6","7","8","9">>[d + 1]

\* str(n) for 0 <= n < 100
Str(n) == IF n < 10 THEN <<Digit(n)>> ELSE <<Digit(n \div 10), Digit(n % 10)>>

CLARIFICATION_TEXT ==
  <<"I"," ","c","o","u","l","d","n","'","t"," ","c","a","t","c","h"," ","t","h","a","t","."," ","C","o","u","l","d"," ","y","o","u"," ","p","l","e","a","s","e"," ","r","e","p","e","a","t","?">>

DEFAULT_RESPONSE ==
  <<"I","'","m"," ","s","o","r","r","y",","," ","I"," ","c","a","n","'","t"," ","t","h","i","n","k"," ","r","i","g","h","t"," ","n","o","w","."," ","P","l","e","a","s","e"," ","c","h","e","c","k"," ","m","y"," ","A","I"," ","c","o","n","n","e","c","t","i","o","n",".">>

PLACEHOLDER_PREFIX ==
  <<"C","o","n","v","e","r","s","a","t","i","o","n"," ","a","t">>

\* datetime.strftime('%I:%M %p') of a clock that counts whole hours
StrfTime(t) ==
  LET h  == t % 24
      h12 == IF h % 12 = 0 THEN 12 ELSE h % 12
  IN  <<Digit(h12 \div 10), Digit(h12 % 10), ":", "0", "0", " ",
        IF h < 12 THEN "A" ELSE "P", "M">>

\* f"Conversation at {datetime.utcnow().strftime('%I:%M %p')}"
PlaceholderTitle(t) == PLACEHOLDER_PREFIX \o <<" ">> \o StrfTime(t)

\* ------------------------------------------------------------ session store
\* convs: sequence of conversation rows, the id of a row is its index.
\* msgs:  sequence of message rows, the id of a row is its index.

\* (a faulty variant: the cut-off computed one hour too late)
ActiveConversations_ShortWindow(cs, user_id, t) ==
  {i \in DOMAIN cs : cs[i].user_id = user_id /\ cs[i].updated_at >= t - ACTIVE_WINDOW + 1}

\* Conversation.user_id == user_id, Conversation.updated_at >= two_hours_ago
ActiveConversations(cs, user_id, t) ==
  {i \in DOMAIN cs : cs[i].user_id = user_id /\ cs[i].updated_at >= t - ACTIVE_WINDOW}

\* (a faulty variant: the window filter written with > instead of >=)
FirstActive_Strict(cs, user_id, t) ==
  LET act == {i \in DOMAIN cs : cs[i].user_id = user_id /\ cs[i].updated_at > t - ACTIVE_WINDOW}
  IN  {i \in act : \A j \in act : cs[j].updated_at <= cs[i].updated_at}

\* (a faulty variant: a conversation still holding its placeholder title is
\* not taken for an active one)
FirstActive_Retitled(cs, user_id, t) ==
  LET act == {i \in DOMAIN cs : /\ cs[i].user_id = user_id
                                /\ cs[i].updated_at >= t - ACTIVE_WINDOW
                                /\ ~StartsWith(cs[i].title, PLACEHOLDER_PREFIX)}
  IN  {i \in act : \A j \in act : cs[j].updated_at <= cs[i].updated_at}

\* .order_by(desc(Conversation.updated_at)).first(): the rows the query may
\* return (rows with equal updated_at come in an order the database picks)
FirstActive(cs, user_id, t) ==
  LET act == ActiveConversations(cs, user_id, t)
  IN  {i \in act : \A j \in act : cs[j].updated_at <= cs[i].updated_at}

\* The column defaults of the Conversation and Message models, which the
\* services leave to the models: updated_at of a new conversation and
\* created_at of a new message are the time of the insert.
DefaultTimestamp(t) == t

\* Conversation(user_id=..., title=..., extra_data={"source": "voice"});
\* `by` records the turn that inserted the row.
NewConversation(user_id, t, by) ==
  [user_id |-> user_id, title |-> PlaceholderTitle(t),
   updated_at |-> DefaultTimestamp(t), by |-> by]

\* (a faulty variant: an insert that is skipped when the user has an active
\* conversation by the time of the commit)
InsertConversation_IfNoneActive(cs, user_id, t, by) ==
  IF \E i \in DOMAIN cs : cs[i].user_id = user_id /\ cs[i].updated_at >= t - ACTIVE_WINDOW
    THEN cs
    ELSE Append(cs, [user_id |-> user_id, title |-> PlaceholderTitle(t),
                     updated_at |-> t, by |-> by])

\* db.add(conversation); db.commit(); db.refresh(conversation)
InsertConversation(cs, user_id, t, by) == Append(cs, NewConversation(user_id, t, by))

\* get_or_create_active_conversation as one call: the outcomes it may have,
\* each the conversation rows after the call and the id of the row returned
GetOrCreateActiveConversation(cs, user_id, t, by) ==
  LET found == FirstActive(cs, user_id, t)
  IN  IF found = {}
        THEN {[convs |-> InsertConversation(cs, user_id, t, by), ret |-> Len(cs) + 1]}
        ELSE {[convs |-> cs, ret |-> c] : c \in found}

\* Message(conversation_id=..., role=..., content=..., extra_data=metadata)
\* `by` records the turn that added the row.
NewMessage(conversation_id, role, content, metadata, t, by) ==
  [conversation_id |-> conversation_id, role |-> role, content |-> content,
   extra_data |-> metadata, created_at |-> DefaultTimestamp(t), by |-> by]

\* (a faulty variant: the row is not part of the commit)
AddMessageRows_Deferred(ms, conversation_id, role, content, metadata, t, by) == ms

\* (a faulty variant: the row added twice)
AddMessageRows_Twice(ms, conversation_id, role, content, metadata, t, by) ==
  ms \o << [conversation_id |-> conversation_id, role |-> role, content |-> content,
            extra_data |-> metadata, created_at |-> t, by |-> by],
           [conversation_id |-> conversation_id, role |-> role, content |-> content,
            extra_data |-> metadata, created_at |-> t, by |-> by] >>

\* add_message, the message rows after the commit
AddMessageRows(ms, conversation_id, role, content, metadata, t, by) ==
  Append(ms, NewMessage(conversation_id, role, content, metadata, t, by))

\* (a faulty variant: the parent conversation left as it was)
AddMessageConvs_Stale(cs, conversation_id, t) == cs

\* add_message, the conversation rows after the commit:
\* if conversation: conversation.updated_at = datetime.utcnow()
AddMessageConvs(cs, conversation_id, t) ==
  IF conversation_id \in DOMAIN cs
    THEN [cs EXCEPT ![conversation_id].updated_at = t]
    ELSE cs

\* db.commit() in add_message.  add_message itself does not look the
\* conversation up before the insert ("if conversation:" only guards the
\* timestamp update), so with a conversation_id that no row has the outcome
\* is the database's: it rejects the insert if it enforces the reference,
\* and stores the row otherwise.
CommitOutcomes(cs, conversation_id) ==
  IF conversation_id \in DOMAIN cs THEN {"ok"} ELSE {"ok", "IntegrityError"}

\* add_message as one call: the tables after it, the id of the message
\* returned, and the exception that left the call ("none" when it returned)
AddMessage(ms, cs, conversation_id, role, content, metadata, t, by, commit) ==
  IF commit = "ok"
    THEN [msgs |-> AddMessageRows(ms, conversation_id, role, content, metadata, t, by),
          convs |-> AddMessageConvs(cs, conversation_id, t),
          ret |-> Len(ms) + 1, raised |-> "none"]
    ELSE [msgs |-> ms, convs |-> cs, ret |-> None, raised |-> commit]

\* title = first_message[:50]; if len(first_message) > 50: title += "..."
TitleFrom(first_message) ==
  IF Len(first_message) > TITLE_MAX
    THEN Prefix(first_message, TITLE_MAX) \o <<".", ".", ".">>
    ELSE Prefix(first_message, TITLE_MAX)

\* (a faulty variant: the commit of the title also moves updated_at)
GenerateConversationTitle_Touch(cs, conversation_id, first_message) ==
  IF conversation_id \in DOMAIN cs
     /\ StartsWith(cs[conversation_id].title, PLACEHOLDER_PREFIX)
    THEN [cs EXCEPT ![conversation_id].title = TitleFrom(first_message),
                    ![conversation_id].updated_at = @ + 1]
    ELSE cs

\* (a faulty variant: the title is assigned and never committed)
GenerateConversationTitle_Unsaved(cs, conversation_id, first_message) == cs

\* generate_conversation_title, the conversation rows after the call
GenerateConversationTitle(cs, conversation_id, first_message) ==
  IF conversation_id \in DOMAIN cs
     /\ StartsWith(cs[conversation_id].title, PLACEHOLDER_PREFIX)
    THEN [cs EXCEPT ![conversation_id].title = TitleFrom(first_message)]
    ELSE cs

\* Message.conversation_id == conversation_id
MessagesOf(ms, conversation_id) ==
  {i \in DOMAIN ms : ms[i].conversation_id = conversation_id}

\* .order_by(desc(Message.created_at)): every order of the ids in S the query
\* may produce, newest first (rows with equal created_at in either order)
RECURSIVE NewestFirst(_, _)
NewestFirst(ms, S) ==
  IF S = {} THEN {<<>>}
  ELSE LET top == {i \in S : \A j \in S : ms[j].created_at <= ms[i].created_at}
       IN  UNION {{<<i>> \o r : r \in NewestFirst(ms, S \ {i})} : i \in top}

\* (a faulty variant: the rows kept in the order of the query)
Reverse_Kept(s) == s

\* list(reversed(messages))
Reverse(s) == [i \in 1..Len(s) |-> s[Len(s) + 1 - i]]

\* get_conversation_context: the lists the call may return
GetConversationContext(ms, conversation_id, limit) ==
  {LET rows == Reverse(Prefix(q, limit))
   IN  [i \in 1..Len(rows) |-> [role |-> ms[rows[i]].role, content |-> ms[rows[i]].content]]
   : q \in NewestFirst(ms, MessagesOf(ms, conversation_id))}

\* -------------------------------------------------------- response generator

\* generate_default_response()
GenerateDefaultResponse == DEFAULT_RESPONSE

\* Module initialisation of routers/conversation.py: GEMINI_ENABLED is True
\* only if an API key other than the placeholder is configured and both
\* genai.configure and list(genai.list_models()) return without raising.
InitGemini(api_key, configure_ok, list_models_ok) ==
  IF api_key = "set"
    THEN (IF configure_ok THEN list_models_ok ELSE FALSE)
    ELSE FALSE

ApiKeys == {"unset", "placeholder", "set"}

\* role = "user" if msg["role"] == "user" else "model"
ChatRole(role) == IF role = "user" THEN "user" ELSE "model"

\* (a faulty variant: the first five entries instead of the last five)
LimitedContext_Head(conversation_context) ==
  IF Len(conversation_context) > HISTORY_WINDOW
    THEN SubSeq(conversation_context, 1, HISTORY_WINDOW)
    ELSE conversation_context

\* limited_context = conversation_context[-5:] if ... > 5 else conversation_context
LimitedContext(conversation_context) ==
  IF Len(conversation_context) > HISTORY_WINDOW
    THEN Suffix(conversation_context, HISTORY_WINDOW)
    ELSE conversation_context

\* chat_history, as passed to model.start_chat(history=...)
ChatHistory(conversation_context) ==
  LET lc == LimitedContext(conversation_context)
  IN  [i \in 1..Len(lc) |-> [role |-> ChatRole(lc[i].role), parts |-> <<lc[i].content>>]]

\* What the language model does with chat.send_message:
\*   "error"    the call raises `exc` (network, authentication, quota ...)
\*   "no_text"  the call returns, response.text raises `exc`
\*   "text"     the call returns, response.text is `text`
ModelTexts == { <<" ">>, <<" ", "o", "k", "\n">> }

ModelBehaviours ==
  {[kind |-> "error", exc |-> "GoogleAPIError", text |-> <<>>],
   [kind |-> "no_text", exc |-> "ValueError", text |-> <<>>]}
  \cup {[kind |-> "text", exc |-> "none", text |-> s] : s \in ModelTexts}

\* What the user's stored profile does to the code that runs before the model
\* call: nothing, pytz.timezone(user_timezone) raises UnknownTimeZoneError, or
\* format_user_context(user_preferences) raises TypeError.
Profiles == {"none", "UnknownTimeZoneError", "TypeError"}

\* (a faulty variant: a handler for the provider's errors only)
CaughtAtBody_ApiOnly == {"GoogleAPIError"}

\* The exception classes the handlers of generate_gemini_response catch:
\* "except (ValueError, AttributeError)" around response.text, and
\* "except Exception" around the whole body.
ExceptionClasses ==
  {"UnknownTimeZoneError", "TypeError", "GoogleAPIError", "ValueError", "AttributeError"}

CaughtAtText == {"ValueError", "AttributeError"}

CaughtAtBody == ExceptionClasses

\* The result of one invocation: the returned text, the exception that left
\* the function ("none" when it returned), the number of send_message calls
\* and the history sent.
GenResult(text, raised, calls, history) ==
  [text |-> text, raised |-> raised, calls |-> calls, history |-> history]

\* (a faulty variant: the handler logs and re-raises)
ExceptBody_Reraise(exc, calls, history) == [text |-> <<>>, raised |-> exc, calls |-> calls, history |-> history]

\* The handler of the outer try block
ExceptBody(exc, calls, history) ==
  IF exc \in CaughtAtBody
    THEN GenResult(GenerateDefaultResponse, "none", calls, history)
    ELSE GenResult(<<>>, exc, calls, history)

\* The inner try block: response_text = response.text.strip(), default if empty
ExtractText(model, history) ==
  IF model.kind = "no_text"
    THEN (IF model.exc \in CaughtAtText
            THEN GenResult(GenerateDefaultResponse, "none", 1, history)
            ELSE ExceptBody(model.exc, 1, history))
  ELSE IF Strip(model.text) = <<>>
    THEN GenResult(GenerateDefaultResponse, "none", 1, history)
  ELSE GenResult(Strip(model.text), "none", 1, history)

\* (a faulty variant: GEMINI_ENABLED is not consulted)
GenerateGeminiResponse_IgnoreFlag(enabled, user_text, conversation_context, profile, model) ==
  IF profile # "none"
    THEN ExceptBody(profile, 0, <<>>)
  ELSE LET history == ChatHistory(conversation_context)
       IN  IF model.kind = "error"
             THEN ExceptBody(model.exc, 1, history)
             ELSE ExtractText(model, history)

\* generate_gemini_response
GenerateGeminiResponse(enabled, user_text, conversation_context, profile, model) ==
  IF ~enabled
    THEN GenResult(GenerateDefaultResponse, "none", 0, <<>>)
  ELSE IF profile # "none"
    THEN ExceptBody(profile, 0, <<>>)
  ELSE LET history == ChatHistory(conversation_context)
       IN  IF model.kind = "error"
             THEN ExceptBody(model.exc, 1, history)
             ELSE ExtractText(model, history)

\* ------------------------------------------------------------ synthesis

TtsOutcomes == {"ok", "error"}

\* generate_tts: a StreamingResponse, or HTTPException(500) when gTTS raises
GenerateTts(text, outcome) ==
  IF outcome = "ok"
    THEN [kind |-> "StreamingResponse", provider |-> "primary", text |-> text,
          filename |-> "sonna_output.mp3"]
    ELSE [kind |-> "HTTPException", provider |-> "primary", text |-> text,
          filename |-> ""]

\* -------------------------------------------------------------------- state

VARIABLES
  now,             \* the clock (datetime.utcnow()), in hours
  convs,           \* the conversations table
  msgs,            \* the messages table
  turns,           \* per voice turn: its position and its local variables
  files,           \* per voice turn: its temporary audio file
  GEMINI_ENABLED,  \* the module-level flag of routers/conversation.py
  call             \* the last direct call of a store operation and its result

vars == <<now, convs, msgs, turns, files, GEMINI_ENABLED, call>>

NoResponse ==
  [provider |-> "none", filename |-> "", text |-> <<>>,
   conversation_id |-> <<>>, message_id |-> <<>>,
   transcribed_text |-> <<>>, response_text |-> <<>>]

\* The locals of voice_reasoning_loop before its first statement, with the
\* bookkeeping the properties below read: failed_at (the step that raised),
\* heard (what the transcription returned), llm (what the language model was
\* asked: "none" not asked to generate, "ok" it answered with text, "failed"
\* the profile or the model made the call fail), llm_calls (send_message
\* calls), history (the chat history built for the model), tts and tts2 (what the primary provider did and what the secondary
\* would do with the same text).
IdleTurn ==
  [pc |-> "idle", status |-> None, failed_at |-> "none",
   user |-> None, conversation_id |-> None, context |-> <<>>,
   temp_audio_path |-> None, user_text |-> <<>>, response_text |-> <<>>,
   message_id |-> None, response |-> NoResponse,
   heard |-> <<>>, llm |-> "none", llm_calls |-> 0, history |-> <<>>,
   tts |-> "none", tts2 |-> "none"]

NoFile == [created |-> FALSE, exists |-> FALSE, unlinks |-> 0]

\* call: the operation called, its user_id argument, the clock and the number
\* of conversation rows when it was called, the id it returned; for a call of
\* the response generator, its arguments and its result
NoCall ==
  [op |-> "none", user_id |-> None, at |-> 0, before |-> 0, ret |-> None,
   args |-> <<>>, out |-> <<>>]

Init ==
  /\ now = 0
  /\ convs = <<>>
  /\ msgs = <<>>
  /\ turns = [t \in Turns |-> IdleTurn]
  /\ files = [t \in Turns |-> NoFile]
  /\ \E k \in ApiKeys, c \in BOOLEAN, l \in BOOLEAN : GEMINI_ENABLED = InitGemini(k, c, l)
  /\ call = NoCall

\* ------------------------------------------------------------ the voice turn

\* (a faulty variant: the exception is dropped and no status is set)
Abort_Silent(t, step) ==
  turns' = [turns EXCEPT ![t].pc = "cleanup", ![t].failed_at = step]

\* (a faulty variant: an HTTPException is passed on with its own status, so a
\* rejected upload in transcribe_audio reaches the caller as 415)
Abort_PassThrough(t, step) ==
  turns' = [turns EXCEPT ![t].pc = "cleanup", ![t].failed_at = step,
                         ![t].status = IF step = "transcribe" THEN 415 ELSE 500]

\* except Exception: raise HTTPException(500); the finally block is still to run
Abort(t, step) ==
  turns' = [turns EXCEPT ![t].pc = "cleanup", ![t].status = 500, ![t].failed_at = step]

\* A request arrives; user = get_or_create_default_user(db)
\* (turn ids are labels: turn t+1 is the request that arrives after turn t)
Start(t) ==
  /\ turns[t].pc = "idle"
  /\ \A u \in Turns : u < t => turns[u].pc # "idle"
  /\ \/ turns' = [turns EXCEPT ![t].pc = "lookup", ![t].user = DEFAULT_USER]
     \/ Abort(t, "identity")
  /\ UNCHANGED <<now, convs, msgs, files, GEMINI_ENABLED, call>>

\* get_or_create_active_conversation, the query
Lookup(t) ==
  /\ turns[t].pc = "lookup"
  /\ LET found == FirstActive(convs, turns[t].user, now)
     IN  \/ /\ found = {}
            /\ turns' = [turns EXCEPT ![t].pc = "create"]
         \/ \E c \in found :
              turns' = [turns EXCEPT ![t].pc = "context", ![t].conversation_id = c]
         \/ Abort(t, "session")
  /\ UNCHANGED <<now, convs, msgs, files, GEMINI_ENABLED, call>>

\* get_or_create_active_conversation, "if not conversation": insert and commit
Create(t) ==
  /\ turns[t].pc = "create"
  /\ \/ /\ convs' = InsertConversation(convs, turns[t].user, now, t)
        /\ turns' = [turns EXCEPT ![t].pc = "context",
                                  ![t].conversation_id = Len(convs) + 1]
     \/ /\ Abort(t, "session")
        /\ UNCHANGED convs
  /\ UNCHANGED <<now, msgs, files, GEMINI_ENABLED, call>>

\* context = get_conversation_context(db, conversation_id, limit=10)
LoadContext(t) ==
  /\ turns[t].pc = "context"
  /\ \/ \E ctx \in GetConversationContext(msgs, turns[t].conversation_id, CONTEXT_LIMIT) :
          turns' = [turns EXCEPT ![t].pc = "audio", ![t].context = ctx]
     \/ Abort(t, "context")
  /\ UNCHANGED <<now, convs, msgs, files, GEMINI_ENABLED, call>>

\* with tempfile.NamedTemporaryFile(delete=False, ...) as tmp:
\*     contents = await audio.read(); tmp.write(contents); temp_audio_path = tmp.name
\* The file exists as soon as NamedTemporaryFile returns; reading the upload
\* or writing it may raise before temp_audio_path is assigned.
PersistAudio(t) ==
  /\ turns[t].pc = "audio"
  /\ \/ /\ files' = [files EXCEPT ![t] = [created |-> TRUE, exists |-> TRUE, unlinks |-> 0]]
        /\ turns' = [turns EXCEPT ![t].pc = "transcribe", ![t].temp_audio_path = t]
     \/ /\ files' = [files EXCEPT ![t] = [created |-> TRUE, exists |-> TRUE, unlinks |-> 0]]
        /\ Abort(t, "audio")
     \/ /\ Abort(t, "audio")
        /\ UNCHANGED files
  /\ UNCHANGED <<now, convs, msgs, GEMINI_ENABLED, call>>

\* What is said in the audio of turn t
Utterance(t) == IF t % 2 = 1 THEN <<" ", "h", "i", " ">> ELSE <<"y", "o", "\n">>

\* What transcribe_audio may return as "text" for the audio of turn t
HeardTexts(t) == { <<>>, <<" ", "\n">>, Utterance(t) }

\* (a faulty variant: the transcription used as returned)
UserText_Unstripped(text) == text

\* user_text = transcription.get("text", "").strip()
UserText(text) == Strip(text)

\* transcription = await transcribe_audio(mock_upload)
\* user_text = transcription.get("text", "").strip(); if not user_text: ...
Transcribe(t) ==
  /\ turns[t].pc = "transcribe"
  /\ \/ \E h \in HeardTexts(t) :
          IF UserText(h) = <<>>
            THEN turns' = [turns EXCEPT ![t].pc = "synthesize", ![t].heard = h,
                                        ![t].user_text = CLARIFICATION_TEXT,
                                        ![t].response_text = CLARIFICATION_TEXT]
            ELSE turns' = [turns EXCEPT ![t].pc = "user_message", ![t].heard = h,
                                        ![t].user_text = UserText(h)]
     \/ Abort(t, "transcribe")
  /\ UNCHANGED <<now, convs, msgs, files, GEMINI_ENABLED, call>>

\* user_message = add_message(db, conversation_id, "user", user_text, ...)
AddUserMessage(t) ==
  /\ turns[t].pc = "user_message"
  /\ \/ /\ msgs' = AddMessageRows(msgs, turns[t].conversation_id, "user",
                                  turns[t].user_text, <<"source", "voice">>, now, t)
        /\ convs' = AddMessageConvs(convs, turns[t].conversation_id, now)
        /\ turns' = [turns EXCEPT
                       ![t].pc = IF Len(turns[t].context) = 0 THEN "retitle" ELSE "generate"]
     \/ /\ Abort(t, "user_message")
        /\ UNCHANGED <<convs, msgs>>
  /\ UNCHANGED <<now, files, GEMINI_ENABLED, call>>

\* if len(context) == 0: generate_conversation_title(db, conversation_id, user_text)
Retitle(t) ==
  /\ turns[t].pc = "retitle"
  /\ \/ /\ convs' = GenerateConversationTitle(convs, turns[t].conversation_id, turns[t].user_text)
        /\ turns' = [turns EXCEPT ![t].pc = "generate"]
     \/ /\ Abort(t, "retitle")
        /\ UNCHANGED convs
  /\ UNCHANGED <<now, msgs, files, GEMINI_ENABLED, call>>

\* (a faulty variant: the context is read again just before the model call)
Generate_Reload(t) ==
  /\ turns[t].pc = "generate"
  /\ \E profile \in Profiles, model \in ModelBehaviours,
        ctx \in GetConversationContext(msgs, turns[t].conversation_id, CONTEXT_LIMIT) :
       LET r == GenerateGeminiResponse(GEMINI_ENABLED, turns[t].user_text, ctx, profile, model)
       IN  turns' = [turns EXCEPT
                       ![t].llm = IF profile = "none" /\ model.kind = "text"
                                       /\ Strip(model.text) # <<>>
                                    THEN "ok" ELSE "failed",
                       ![t].llm_calls = @ + r.calls,
                       ![t].history = r.history,
                       ![t].response_text = IF r.raised = "none" THEN r.text ELSE @,
                       ![t].pc = IF r.raised = "none" THEN "assistant_message" ELSE "cleanup",
                       ![t].status = IF r.raised = "none" THEN @ ELSE 500,
                       ![t].failed_at = IF r.raised = "none" THEN @ ELSE "generate"]
  /\ UNCHANGED <<now, convs, msgs, files, GEMINI_ENABLED, call>>

\* response_text = generate_gemini_response(user_text, context, user_timezone, preferences)
Generate(t) ==
  /\ turns[t].pc = "generate"
  /\ \E profile \in Profiles, model \in ModelBehaviours :
       LET r == GenerateGeminiResponse(GEMINI_ENABLED, turns[t].user_text,
                                       turns[t].context, profile, model)
       IN  turns' = [turns EXCEPT
                       ![t].llm = IF profile = "none" /\ model.kind = "text"
                                       /\ Strip(model.text) # <<>>
                                    THEN "ok" ELSE "failed",
                       ![t].llm_calls = @ + r.calls,
                       ![t].history = r.history,
                       ![t].response_text = IF r.raised = "none" THEN r.text ELSE @,
                       ![t].pc = IF r.raised = "none" THEN "assistant_message" ELSE "cleanup",
                       ![t].status = IF r.raised = "none" THEN @ ELSE 500,
                       ![t].failed_at = IF r.raised = "none" THEN @ ELSE "generate"]
  /\ UNCHANGED <<now, convs, msgs, files, GEMINI_ENABLED, call>>

\* assistant_message = add_message(db, conversation_id, "assistant", response_text, ...)
\* message_id = assistant_message.id
AddAssistantMessage(t) ==
  /\ turns[t].pc = "assistant_message"
  /\ \/ /\ msgs' = AddMessageRows(msgs, turns[t].conversation_id, "assistant",
                                  turns[t].response_text, <<"model", "gemini-2.5-flash">>, now, t)
        /\ convs' = AddMessageConvs(convs, turns[t].conversation_id, now)
        /\ turns' = [turns EXCEPT ![t].message_id = Len(msgs) + 1, ![t].pc = "synthesize"]
     \/ /\ Abort(t, "assistant_message")
        /\ UNCHANGED <<convs, msgs>>
  /\ UNCHANGED <<now, files, GEMINI_ENABLED, call>>

\* str(x) if x else ""
StrOrEmpty(x) == IF x # None THEN Str(x) ELSE <<>>

\* response_headers
ResponseHeaders(conversation_id, message_id, user_text, response_text) ==
  [conversation_id |-> StrOrEmpty(conversation_id),
   message_id |-> StrOrEmpty(message_id),
   transcribed_text |-> Prefix(user_text, HEADER_CAP),
   response_text |-> Prefix(response_text, HEADER_CAP)]

\* Steps 4 and 5 of voice_reasoning_loop and its gTTS fallback: the response
\* returned ([provider |-> "none"] when an exception leaves the try block).
\* `secondary` is what the inline gTTS call would do with the same text.
SynthesizeResponse(conversation_id, message_id, user_text, response_text, primary, secondary) ==
  LET tts_response == GenerateTts(response_text, primary)
      headers == ResponseHeaders(conversation_id, message_id, user_text, response_text)
      audio(provider, filename) ==
        [provider |-> provider, filename |-> filename, text |-> response_text,
         conversation_id |-> headers.conversation_id, message_id |-> headers.message_id,
         transcribed_text |-> headers.transcribed_text,
         response_text |-> headers.response_text]
  IN  IF tts_response.kind = "HTTPException"
        \* raised by "await generate_tts(tts_request)", caught by "except Exception"
        THEN NoResponse
      ELSE IF tts_response.kind = "StreamingResponse"
        THEN audio(tts_response.provider, tts_response.filename)
      ELSE IF secondary = "ok"
        THEN audio("secondary", "sonna_response.mp3")
      ELSE NoResponse

Synthesize(t) ==
  /\ turns[t].pc = "synthesize"
  /\ \E primary \in TtsOutcomes, secondary \in TtsOutcomes :
       LET r == SynthesizeResponse(turns[t].conversation_id, turns[t].message_id,
                                   turns[t].user_text, turns[t].response_text,
                                   primary, secondary)
       IN  turns' = [turns EXCEPT ![t].pc = "cleanup", ![t].tts = primary,
                       ![t].tts2 = IF primary = "ok" THEN "none" ELSE secondary,
                       ![t].response = r,
                       ![t].status = IF r.provider = "none" THEN 500 ELSE 200,
                       ![t].failed_at = IF r.provider = "none" THEN "synthesize" ELSE @]
  /\ UNCHANGED <<now, convs, msgs, files, GEMINI_ENABLED, call>>

UnlinkOutcomes == {"ok", "error"}

\* (a faulty variant: os.path.exists is not consulted)
CleanupFile_NoExistsCheck(file, temp_audio_path, unlink) ==
  IF temp_audio_path # None /\ unlink = "ok"
    THEN [file EXCEPT !.exists = FALSE, !.unlinks = @ + 1]
    ELSE file

\* finally: if temp_audio_path and os.path.exists(temp_audio_path):
\*              try: os.unlink(temp_audio_path) except Exception: logger.warning(...)
CleanupFile(file, temp_audio_path, unlink) ==
  IF temp_audio_path # None /\ file.exists
    THEN (IF unlink = "ok"
            THEN [file EXCEPT !.exists = FALSE, !.unlinks = @ + 1]
            ELSE file)
    ELSE file

\* The request is over: its outcome stays, its locals are gone.
Finished(turn) ==
  [IdleTurn EXCEPT !.pc = "done", !.status = turn.status]

Cleanup(t) ==
  /\ turns[t].pc = "cleanup"
  /\ \E unlink \in UnlinkOutcomes :
       files' = [files EXCEPT ![t] = CleanupFile(files[t], turns[t].temp_audio_path, unlink)]
  /\ turns' = [turns EXCEPT ![t] = Finished(turns[t])]
  /\ UNCHANGED <<now, convs, msgs, GEMINI_ENABLED, call>>

\* The statements that read the clock (datetime.utcnow()): the active-window
\* query, the insert of a conversation and the two add_message calls.
ReadsClock(t) == turns[t].pc \in {"lookup", "create", "user_message", "assistant_message"}

InProgress(t) == turns[t].pc \notin {"idle", "done"}

\* An hour passes.  An hour that passes before a statement that does not read
\* the clock is the same hour passing before the next statement that does, so
\* the clock moves only then, or while no turn is in progress.
Tick ==
  /\ now < MaxTime
  /\ (\E t \in Turns : ReadsClock(t)) \/ (\A t \in Turns : ~InProgress(t))
  /\ now' = now + 1
  /\ UNCHANGED <<convs, msgs, turns, files, GEMINI_ENABLED, call>>

TurnStep(t) ==
  \/ Lookup(t) \/ Create(t) \/ LoadContext(t) \/ PersistAudio(t) \/ Transcribe(t)
  \/ AddUserMessage(t) \/ Retitle(t) \/ Generate(t) \/ AddAssistantMessage(t)
  \/ Synthesize(t) \/ Cleanup(t)

\* Voice turns served concurrently (several workers over one database).
Next == Tick \/ \E t \in Turns : Start(t) \/ TurnStep(t)

Spec == Init /\ [][Next]_vars

\* Voice turns served one at a time.

StartAlone(t) == (\A u \in Turns : ~InProgress(u)) /\ Start(t)

NextSeq == Tick \/ \E t \in Turns : StartAlone(t) \/ TurnStep(t)

SpecSeq == Init /\ [][NextSeq]_vars

\* The same, where every call a turn waits for returns or raises in the end:
\* a turn that can take its next step eventually takes it.
SpecFair == SpecSeq /\ \A t \in Turns : WF_vars(TurnStep(t))

\* ------------------------------------------ direct calls of the session store

\* conversation = get_or_create_active_conversation(db, user_id)
CallGetOrCreate(user_id) ==
  /\ Len(convs) < MaxConvs
  /\ \E r \in GetOrCreateActiveConversation(convs, user_id, now, None) :
       /\ convs' = r.convs
       /\ call' = [op |-> "get_or_create", user_id |-> user_id, at |-> now,
                   before |-> Len(convs), ret |-> r.ret, args |-> <<>>, out |-> <<>>]
  /\ UNCHANGED <<now, msgs, turns, files, GEMINI_ENABLED>>

\* What a direct call passes as the n-th message: its role and its content
CallRole(n) == IF n % 2 = 1 THEN "user" ELSE "assistant"

CallContent(n) == <<"m", Digit(n % 10)>>

\* message = add_message(db, conversation_id, role, content, metadata=...)
CallAddMessage(conversation_id) ==
  /\ \E commit \in CommitOutcomes(convs, conversation_id) :
       LET n == Len(msgs) + 1
           r == AddMessage(msgs, convs, conversation_id, CallRole(n), CallContent(n),
                           <<"source", "voice">>, now, None, commit)
       IN  /\ msgs' = r.msgs
           /\ convs' = r.convs
           /\ call' = [op |-> "add_message", user_id |-> None, at |-> now,
                       before |-> Len(convs), ret |-> r.ret,
                       args |-> [conversation_id |-> conversation_id,
                                 messages |-> Len(msgs)],
                       out |-> [raised |-> r.raised]]
  /\ UNCHANGED <<now, turns, files, GEMINI_ENABLED>>

\* The limits a direct call of get_conversation_context passes
ContextLimits == {1, 2, CONTEXT_LIMIT}

\* context = get_conversation_context(db, conversation_id, limit)
CallGetContext(conversation_id, limit) ==
  /\ \E ctx \in GetConversationContext(msgs, conversation_id, limit) :
       call' = [op |-> "get_context", user_id |-> None, at |-> now,
                before |-> Len(convs), ret |-> None,
                args |-> [conversation_id |-> conversation_id, limit |-> limit],
                out |-> ctx]
  /\ UNCHANGED <<now, convs, msgs, turns, files, GEMINI_ENABLED>>

\* generate_conversation_title(db, conversation_id, first_message)
CallRetitle(conversation_id, first_message) ==
  /\ convs' = GenerateConversationTitle(convs, conversation_id, first_message)
  /\ call' = [op |-> "retitle", user_id |-> None, at |-> now,
              before |-> Len(convs), ret |-> None,
              args |-> [conversation_id |-> conversation_id, text |-> first_message],
              out |-> <<>>]
  /\ UNCHANGED <<now, msgs, turns, files, GEMINI_ENABLED>>

\* An hour passes between two calls.
StoreTick ==
  /\ now < MaxStoreTime
  /\ now' = now + 1
  /\ UNCHANGED <<convs, msgs, turns, files, GEMINI_ENABLED, call>>

\* Calls of get_or_create_active_conversation and add_message in any order,
\* by two users, each add_message with the id of a conversation that exists.
NextStore ==
  \/ StoreTick
  \/ \E u \in Users : CallGetOrCreate(u)
  \/ \E c \in DOMAIN convs : Len(msgs) < MaxMsgs /\ CallAddMessage(c)

SpecStore == Init /\ [][NextStore]_vars

\* The same, add_message also with ids that no conversation has.
NextStoreAny ==
  \/ StoreTick
  \/ \E u \in Users : CallGetOrCreate(u)
  \/ \E c \in 1..MaxConvs : Len(msgs) < MaxMsgs /\ CallAddMessage(c)

SpecStoreAny == Init /\ [][NextStoreAny]_vars

\* The four store operations called in any order for the default user.
NextSession ==
  \/ StoreTick
  \/ CallGetOrCreate(DEFAULT_USER)
  \/ \E c \in DOMAIN convs : Len(msgs) < MaxSessionMsgs /\ CallAddMessage(c)
  \/ \E c \in DOMAIN convs, limit \in ContextLimits : CallGetContext(c, limit)
  \/ \E c \in DOMAIN convs : CallRetitle(c, CallContent(Len(msgs)))

SpecSession == Init /\ [][NextSession]_vars

\* The candidate texts of direct calls of generate_conversation_title: a short
\* text, a text that itself begins with "Conversation at", a text of exactly
\* 50 characters and one of 51.
RetitleTexts ==
  { <<"h", "i">>,
    PLACEHOLDER_PREFIX \o <<" ", "6">>,
    [i \in 1..TITLE_MAX |-> "x"],
    [i \in 1..(TITLE_MAX + 1) |-> "y"] }

NextTitle ==
  \/ StoreTick
  \/ \E u \in Users : CallGetOrCreate(u)
  \/ \E c \in DOMAIN convs, text \in RetitleTexts : CallRetitle(c, text)

SpecTitle == Init /\ [][NextTitle]_vars

\* ------------------------------------- direct calls of the response generator

\* Contexts as get_conversation_context returns them: n entries, user and
\* assistant in turn, or with a system message first
GenContexts ==
  {[i \in 1..n |-> [role |-> IF i % 2 = 1 THEN "user" ELSE "assistant",
                    content |-> <<"m", Digit(i % 10)>>]] : n \in 0..MaxContext}
  \cup {[i \in 1..n |-> [role |-> IF i = 1 THEN "system"
                                  ELSE IF i % 2 = 1 THEN "user" ELSE "assistant",
                          content |-> <<"m", Digit(i % 10)>>]] : n \in 1..MaxContext}

\* What the language model may do in a direct call
GenModelBehaviours ==
  ModelBehaviours
  \cup {[kind |-> "no_text", exc |-> "AttributeError", text |-> <<>>]}
  \cup {[kind |-> "text", exc |-> "none", text |-> s] :
          s \in { <<>>, <<"\t", "a", " ", "b">>, <<"o", "k">> }}

\* response_text = generate_gemini_response(user_text, context, timezone, preferences)
CallGenerate(user_text, context, profile, model) ==
  /\ call' = [op |-> "generate", user_id |-> None, at |-> now, before |-> Len(convs),
              ret |-> None,
              args |-> [enabled |-> GEMINI_ENABLED, user_text |-> user_text,
                        context |-> context, profile |-> profile, model |-> model],
              out |-> GenerateGeminiResponse(GEMINI_ENABLED, user_text, context,
                                             profile, model)]
  /\ UNCHANGED <<now, convs, msgs, turns, files, GEMINI_ENABLED>>

NextGen ==
  \E context \in GenContexts, profile \in Profiles, model \in GenModelBehaviours :
    CallGenerate(Strip(Utterance(1)), context, profile, model)

SpecGen == Init /\ [][NextGen]_vars

\* ------------------------------------------ the cleanup step on its own

\* Step 1 of the voice loop for request t, on its own: the temporary file is
\* created and temp_audio_path assigned, or the file is created and the read
\* of the upload raises before the assignment.
TempFile(t) ==
  /\ ~files[t].created
  /\ files' = [files EXCEPT ![t] = [created |-> TRUE, exists |-> TRUE, unlinks |-> 0]]
  /\ \/ turns' = [turns EXCEPT ![t].temp_audio_path = t]
     \/ UNCHANGED turns
  /\ UNCHANGED <<now, convs, msgs, GEMINI_ENABLED, call>>

\* The file is removed by someone else (os.path.exists then answers False).
Vanish(t) ==
  /\ files[t].exists
  /\ files' = [files EXCEPT ![t].exists = FALSE]
  /\ UNCHANGED <<now, convs, msgs, turns, GEMINI_ENABLED, call>>

\* The finally block of request t, run once more; call.ret counts how many
\* times in a row it has run for t, call.args.before is the file it found.
CallCleanup(t, unlink) ==
  LET n == IF call.op = "cleanup" THEN (IF call.args.turn = t THEN call.ret + 1 ELSE 1)
           ELSE 1
  IN  /\ n <= MaxCleanups
      /\ files' = [files EXCEPT ![t] = CleanupFile(files[t], turns[t].temp_audio_path, unlink)]
      /\ call' = [op |-> "cleanup", user_id |-> None, at |-> now, before |-> Len(convs),
                  ret |-> n, args |-> [turn |-> t, before |-> files[t]], out |-> <<>>]
      /\ UNCHANGED <<now, convs, msgs, turns, GEMINI_ENABLED>>

NextCleanup ==
  \E t \in Turns :
    \/ TempFile(t)
    \/ Vanish(t)
    \/ \E unlink \in UnlinkOutcomes : CallCleanup(t, unlink)

SpecCleanup == Init /\ [][NextCleanup]_vars

\* ------------------------------------------------------------------ claims

\* C1: get_or_create_active_conversation(user_id).  If at the time of the call
\* some conversation of that user has updated_at >= now - 2h, the call returns
\* one with the greatest updated_at among them and inserts nothing; otherwise
\* it inserts exactly one conversation of that user, with a placeholder title
\* and updated_at = now, and returns it.  The row returned is never another
\* user's and never outside the 2h window.
C1_GetOrCreateActive ==
  call.op = "get_or_create" =>
    LET before == SubSeq(convs, 1, call.before)
        recent == {i \in DOMAIN before :
                     /\ before[i].user_id = call.user_id
                     /\ call.at - before[i].updated_at <= 2}
    IN  /\ call.ret \in DOMAIN convs
        /\ convs[call.ret].user_id = call.user_id
        /\ call.at - convs[call.ret].updated_at <= 2
        /\ IF recent # {}
             THEN /\ Len(convs) = call.before
                  /\ call.ret \in recent
                  /\ \A j \in recent : convs[j].updated_at <= convs[call.ret].updated_at
             ELSE /\ Len(convs) = call.before + 1
                  /\ call.ret = call.before + 1
                  /\ StartsWith(convs[call.ret].title, PLACEHOLDER_PREFIX)
                  /\ convs[call.ret].updated_at = call.at

\* C1 witness: the user's newest conversation was last active 3 hours before
\* the call, another user has an active conversation, and the call has just
\* inserted a new conversation for the user.
C1_Witness ==
  /\ call.op = "get_or_create"
  /\ now = call.at
  /\ Len(convs) = call.before + 1
  /\ call.ret = Len(convs)
  /\ \E i \in 1..call.before :
       /\ convs[i].user_id = call.user_id
       /\ convs[i].updated_at = call.at - 3
  /\ \E i \in 1..call.before :
       /\ convs[i].user_id # call.user_id
       /\ convs[i].updated_at >= call.at - 2

\* The conversations of a user that are active now: now - updated_at <= 2h
ActiveNow(user_id) ==
  {i \in DOMAIN convs : convs[i].user_id = user_id /\ now - convs[i].updated_at <= 2}

\* C2: while the turns of a user run one at a time, every state has at most
\* one active conversation of that user, and a conversation is only ever
\* inserted at a moment when the user has no active conversation.
C2_OneActivePerUser ==
  /\ [](\A u \in Users : Cardinality(ActiveNow(u)) <= 1)
  /\ [][Len(convs') > Len(convs) =>
          /\ Len(convs') = Len(convs) + 1
          /\ ActiveNow(convs'[Len(convs')].user_id) = {}]_vars

\* C2 witness: a second conversation of the user exists, inserted by a later
\* turn once the first went out of the window, and only it is active.
C2_Witness ==
  /\ Len(convs) = 2
  /\ convs[1].user_id = convs[2].user_id
  /\ convs[1].by # convs[2].by
  /\ ActiveNow(convs[1].user_id) = {2}
  /\ MessagesOf(msgs, 1) # {}
  /\ MessagesOf(msgs, 2) # {}

\* The message rows a turn has added
AddedBy(t) == {i \in DOMAIN msgs : msgs[i].by = t}

\* The turn has its transcription (it is at or past the branch on user_text)
Transcribed(t) ==
  \/ turns[t].pc \in {"user_message", "retitle", "generate", "assistant_message", "synthesize"}
  \/ /\ turns[t].pc = "cleanup"
     /\ turns[t].failed_at \notin {"identity", "session", "context", "audio", "transcribe"}

\* The turn has its response: the audio response is returned, the finally
\* block is still to run
Returned(t) == turns[t].pc = "cleanup" /\ turns[t].status = 200

\* C3: get_or_create_active_conversation inserts without looking again, so a
\* turn that found no active conversation inserts one for its user even when
\* another turn has inserted an active one since; every message of a turn goes
\* to the conversation that turn resolved.  (The interleaving of the claim is
\* the witness.)
C3_RacingInsert ==
  /\ [][\A t \in Turns :
          (turns[t].pc = "create" /\ turns'[t].pc = "context") =>
             /\ Len(convs') = Len(convs) + 1
             /\ turns'[t].conversation_id = Len(convs')
             /\ convs'[Len(convs')].by = t
             /\ convs'[Len(convs')].user_id = turns[t].user
             /\ convs'[Len(convs')].updated_at = now]_vars
  /\ [](\A t \in Turns : \A i \in AddedBy(t) :
          InProgress(t) => msgs[i].conversation_id = turns[t].conversation_id)

\* C3 witness: no time has passed, so each of the two turns looked for an
\* active conversation before the other inserted one; the same user now has
\* two active conversations, one per turn, and each turn has added its user
\* message to its own.
C3_Witness ==
  /\ now = 0
  /\ \E a \in Turns, b \in Turns :
       /\ a # b
       /\ turns[a].user = turns[b].user
       /\ turns[a].conversation_id # turns[b].conversation_id
       /\ {turns[a].conversation_id, turns[b].conversation_id} \subseteq ActiveNow(turns[a].user)
       /\ convs[turns[a].conversation_id].by = a
       /\ convs[turns[b].conversation_id].by = b
       /\ \E i \in AddedBy(a) : msgs[i].conversation_id = turns[a].conversation_id
       /\ \E i \in AddedBy(b) : msgs[i].conversation_id = turns[b].conversation_id

\* C4: a turn whose transcription is not empty and that returns audio has
\* added exactly two messages, both to the conversation it resolved: first a
\* user message with the transcribed text, tagged source=voice, then an
\* assistant message with the response text; the message-id tag is the id of
\* the assistant message.  No turn adds more than one user message or more
\* than one assistant message.
C4_TwoMessagesPerTurn ==
  \A t \in Turns :
    /\ Cardinality({i \in AddedBy(t) : msgs[i].role = "user"}) <= 1
    /\ Cardinality({i \in AddedBy(t) : msgs[i].role = "assistant"}) <= 1
    /\ (Returned(t) /\ Strip(turns[t].heard) # <<>>) =>
         /\ Cardinality(AddedBy(t)) = 2
         /\ \E u \in AddedBy(t), a \in AddedBy(t) :
              /\ u < a
              /\ msgs[u].role = "user"
              /\ msgs[u].content = Strip(turns[t].heard)
              /\ msgs[u].extra_data = <<"source", "voice">>
              /\ msgs[u].conversation_id = turns[t].conversation_id
              /\ msgs[a].role = "assistant"
              /\ msgs[a].content = turns[t].response.text
              /\ msgs[a].content = turns[t].response.response_text
              /\ msgs[a].conversation_id = turns[t].conversation_id
              /\ turns[t].response.message_id = Str(a)

\* C4 witness: a turn that heard its utterance returns audio
C4_Witness ==
  \E t \in Turns :
    /\ Returned(t)
    /\ turns[t].heard = Utterance(t)
    /\ Cardinality(AddedBy(t)) = 2

\* The turn is on the no-speech path
NoSpeech(t) == Transcribed(t) /\ Strip(turns[t].heard) = <<>>

\* C5: an empty or whitespace-only transcription is not a failure.  The
\* response text is the clarification phrase, no message is added, the title
\* is not rewritten and the language model is not called, the store is left
\* as it was, the message-id tag is empty, and the turn goes on to synthesis.
C5_NoSpeech ==
  /\ [](\A t \in Turns : NoSpeech(t) =>
          /\ turns[t].response_text = CLARIFICATION_TEXT
          /\ AddedBy(t) = {}
          /\ turns[t].llm = "none" /\ turns[t].llm_calls = 0
          /\ turns[t].message_id = None
          /\ turns[t].pc = "synthesize" \/ turns[t].tts # "none"
          /\ turns[t].failed_at \in {"none", "synthesize"}
          /\ Returned(t) => /\ turns[t].response.text = CLARIFICATION_TEXT
                            /\ turns[t].response.message_id = <<>>)
  /\ [][\A t \in Turns :
          (NoSpeech(t)' /\ turns'[t] # turns[t]) => UNCHANGED <<convs, msgs>>]_vars

\* C5 witness: a turn that heard only whitespace returns audio
C5_Witness ==
  \E t \in Turns :
    /\ Returned(t)
    /\ turns[t].heard = <<" ", "\n">>
    /\ turns[t].conversation_id \in DOMAIN convs
    /\ StartsWith(convs[turns[t].conversation_id].title, PLACEHOLDER_PREFIX)

\* C6: the temporary audio file of a turn that created it no longer exists
\* once the turn is over, whatever the exit path, and was unlinked exactly once.
C6_TempFileReleased ==
  \A t \in Turns :
    (turns[t].pc = "done" /\ files[t].created) =>
       /\ ~files[t].exists
       /\ files[t].unlinks = 1

\* C7: when the primary synthesis fails and the secondary provider would
\* succeed on the same text, the turn returns the secondary provider's audio
\* under the filename sonna_response.mp3, with the turn's tags.
C7_SecondarySynthesis ==
  \A t \in Turns :
    (turns[t].pc = "cleanup" /\ turns[t].tts = "error" /\ turns[t].tts2 = "ok") =>
       /\ turns[t].status = 200
       /\ turns[t].response.provider = "secondary"
       /\ turns[t].response.filename = "sonna_response.mp3"
       /\ turns[t].response.text = turns[t].response_text

\* The turn has called generate_gemini_response
Generated(t) == turns[t].llm # "none"

\* C9: GEMINI_ENABLED never changes after start-up; while it is false every
\* call of generate returns the fallback text and send_message is never called.
C9_DisabledMode ==
  /\ [][GEMINI_ENABLED' = GEMINI_ENABLED]_vars
  /\ [](~GEMINI_ENABLED =>
          \A t \in Turns :
            /\ turns[t].llm_calls = 0
            /\ Generated(t) => /\ turns[t].response_text = DEFAULT_RESPONSE
                               /\ turns[t].failed_at # "generate")

\* C9 witness: the generator is disabled and a turn whose model would have
\* answered has the fallback as its response text
C9_Witness ==
  /\ ~GEMINI_ENABLED
  /\ \E t \in Turns : turns[t].llm = "ok" /\ turns[t].pc = "synthesize"

\* C10: a failing or disabled language model does not abort the turn: the
\* response text is the fallback text, the turn goes on to add an assistant
\* message with exactly that content and then to synthesis.  (Only a failure
\* of the store while adding the message ends the turn before synthesis.)
C10_FallbackContinues ==
  \A t \in Turns :
    (turns[t].llm = "failed" \/ (Generated(t) /\ ~GEMINI_ENABLED)) =>
       /\ turns[t].response_text = DEFAULT_RESPONSE
       /\ turns[t].pc \in {"assistant_message", "synthesize", "cleanup"}
       /\ turns[t].failed_at \in {"none", "assistant_message", "synthesize"}
       /\ (turns[t].pc # "assistant_message" /\ turns[t].failed_at # "assistant_message") =>
            /\ \E a \in AddedBy(t) :
                 /\ msgs[a].role = "assistant"
                 /\ msgs[a].content = DEFAULT_RESPONSE
                 /\ msgs[a].conversation_id = turns[t].conversation_id
                 /\ turns[t].message_id = a
            /\ turns[t].pc = "synthesize" \/ turns[t].tts # "none"
            /\ Returned(t) => turns[t].response.text = DEFAULT_RESPONSE

\* C10 witness: a turn whose model call failed returns the fallback as audio
C10_Witness ==
  \E t \in Turns :
    /\ GEMINI_ENABLED
    /\ turns[t].llm = "failed"
    /\ turns[t].llm_calls = 1
    /\ Returned(t)

\* x is m without its leading and trailing whitespace, and is not empty
Trimmed(x, m) ==
  \E i \in 1..Len(m), j \in 1..Len(m) :
    /\ i <= j
    /\ x = SubSeq(m, i, j)
    /\ m[i] \notin {" ", "\n", "\t"}
    /\ m[j] \notin {" ", "\n", "\t"}
    /\ \A k \in 1..Len(m) : (k < i \/ k > j) => m[k] \in {" ", "\n", "\t"}

\* C8: generate_gemini_response never raises.  It returns the model's text
\* without its leading and trailing whitespace, which is then not empty, or,
\* on any failure (disabled, bad timezone or preferences, model error, empty
\* or unreadable response), exactly the fallback text; it calls the model at
\* most once.
C8_GenerateNeverRaises ==
  call.op = "generate" =>
    LET a == call.args
        r == call.out
        blank == \A k \in 1..Len(a.model.text) : a.model.text[k] \in {" ", "\n", "\t"}
        failure == \/ ~a.enabled
                   \/ a.profile # "none"
                   \/ a.model.kind # "text"
                   \/ blank
    IN  /\ r.raised = "none"
        /\ r.calls <= 1
        /\ IF failure
             THEN r.text = DEFAULT_RESPONSE
             ELSE Trimmed(r.text, a.model.text) /\ r.calls = 1

\* C8 witness: the enabled generator was called, the model call raised, and
\* the call returned the fallback text after that one model call
C8_Witness ==
  /\ call.op = "generate"
  /\ call.args.enabled
  /\ call.args.profile = "none"
  /\ call.args.model.kind = "error"
  /\ call.out.raised = "none"
  /\ call.out.calls = 1
  /\ call.out.text = DEFAULT_RESPONSE

\* C13: add_message with a conversation_id that no conversation has fails and
\* leaves the store as it was: no message row is inserted, no conversation row
\* is added.
C13_AddMessageNotFound ==
  (call.op = "add_message" /\ call.args.conversation_id > call.before) =>
     /\ call.out.raised # "none"
     /\ call.ret = None
     /\ Len(msgs) = call.args.messages
     /\ Len(convs) = call.before

\* The messages of conversation c, and the one added last
Messages(c) == {i \in DOMAIN msgs : msgs[i].conversation_id = c}

LastAdded(c) == CHOOSE i \in Messages(c) : \A j \in Messages(c) : j <= i

\* C15 as stated: every conversation, one just created included, has a most
\* recently added message, and its updated_at is that message's created_at.
C15_LastActivityIsLastMessage ==
  \A c \in DOMAIN convs :
    /\ Messages(c) # {}
    /\ convs[c].updated_at = msgs[LastAdded(c)].created_at

\* C15, amended: every conversation that has a message has the created_at of
\* its most recently added message as updated_at; a conversation without a
\* message that still has its placeholder title has the time of its own
\* insert as updated_at.
C15_LastActivityOfMessages ==
  \A c \in DOMAIN convs :
    IF Messages(c) # {}
      THEN convs[c].updated_at = msgs[LastAdded(c)].created_at
      ELSE StartsWith(convs[c].title, PLACEHOLDER_PREFIX) =>
             convs[c].title = PlaceholderTitle(convs[c].updated_at)

\* C15 witness: a conversation got two messages at different hours, time has
\* passed since, and its updated_at is the created_at of the second.
C15_Witness ==
  \E c \in DOMAIN convs :
    /\ Cardinality(Messages(c)) >= 2
    /\ \E i \in Messages(c) : msgs[i].created_at < msgs[LastAdded(c)].created_at
    /\ convs[c].updated_at = msgs[LastAdded(c)].created_at
    /\ now > convs[c].updated_at
    /\ call.op \in {"retitle", "get_context"}

\* The titles get_or_create_active_conversation generates
AutoTitles == {PlaceholderTitle(h) : h \in 0..23}

\* C16: a call of generate_conversation_title on a conversation whose title is
\* the generated placeholder sets the title to the candidate text, cut to 50
\* characters plus "..." if it is longer; a call on a conversation whose title
\* is anything else (so every call after the first) leaves the title as it is.
C16_RetitleOnce ==
  [][(call'.op = "retitle" /\ now' = now) =>
       LET c == call'.args.conversation_id
           text == call'.args.text
       IN  c \in DOMAIN convs =>
             IF convs[c].title \in AutoTitles
               THEN convs'[c].title =
                      (IF Len(text) <= 50 THEN text
                       ELSE SubSeq(text, 1, 50) \o <<".", ".", ".">>)
               ELSE convs'[c].title = convs[c].title]_vars

\* C17: get_conversation_context(conversation_id, limit) returns min(n, limit)
\* {role, content} pairs, all of messages of that conversation, oldest first
\* by created_at, none of them older than a message of the conversation that
\* is left out; the call changes neither table.
C17_RecentContext ==
  /\ [](call.op = "get_context" =>
          LET mine == {i \in DOMAIN msgs : msgs[i].conversation_id = call.args.conversation_id}
              k == IF Cardinality(mine) < call.args.limit
                     THEN Cardinality(mine) ELSE call.args.limit
          IN  /\ Len(call.out) = k
              /\ \E rows \in [1..k -> mine] :
                   /\ \A i, j \in 1..k : i < j =>
                        /\ rows[i] # rows[j]
                        /\ msgs[rows[i]].created_at <= msgs[rows[j]].created_at
                   /\ \A m \in mine : (\A i \in 1..k : rows[i] # m) =>
                        \A i \in 1..k : msgs[m].created_at <= msgs[rows[i]].created_at
                   /\ \A i \in 1..k :
                        call.out[i] = [role |-> msgs[rows[i]].role,
                                       content |-> msgs[rows[i]].content])
  /\ [][call'.op = "get_context" => (msgs' = msgs /\ convs' = convs)]_vars

\* C17 witness: a conversation has two messages of different hours, a later
\* conversation has a newer message, and a call with limit 1 for the first
\* conversation has returned its second message alone.
C17_Witness ==
  /\ call.op = "get_context"
  /\ call.args.limit = 1
  /\ LET c == call.args.conversation_id
     IN  /\ Cardinality(Messages(c)) = 2
         /\ \E i \in Messages(c) : msgs[i].created_at < msgs[LastAdded(c)].created_at
         /\ \E m \in DOMAIN msgs :
              /\ msgs[m].conversation_id # c
              /\ msgs[m].created_at > msgs[LastAdded(c)].created_at
         /\ call.out = << [role |-> msgs[LastAdded(c)].role,
                           content |-> msgs[LastAdded(c)].content] >>

\* C18: whenever the generator calls the model, the history it hands to
\* start_chat is the last min(5, len(context)) entries of the context, in the
\* same order, each with its content as the only part, role "user" kept and
\* every other role turned into "model"; it never has more than 5 entries.
\* When the model is not called, no history is built.
C18_HistoryWindow ==
  call.op = "generate" =>
    LET ctx == call.args.context
        h == call.out.history
        k == IF Len(ctx) < 5 THEN Len(ctx) ELSE 5
    IN  IF call.out.calls = 1
          THEN /\ Len(h) = k
               /\ Len(h) <= 5
               /\ \A i \in 1..k :
                    LET e == ctx[Len(ctx) - k + i]
                    IN  /\ h[i].parts = <<e.content>>
                        /\ h[i].role = (IF e.role = "user" THEN "user" ELSE "model")
          ELSE h = <<>>

\* C18 witness: a context of 10 entries (the orchestrator's limit) was passed,
\* the model was called, and the history is the entries 6 to 10
C18_Witness ==
  /\ call.op = "generate"
  /\ call.out.calls = 1
  /\ Len(call.args.context) = 10
  /\ Len(call.out.history) = 5
  /\ call.args.context[6].role = "assistant"
  /\ call.out.history[1] = [role |-> "model", parts |-> <<call.args.context[6].content>>]
  /\ call.out.history[5].parts = <<call.args.context[10].content>>

\* The step is a run of the cleanup step for request t
CleanupStep(t) ==
  /\ call'.op = "cleanup"
  /\ call'.args.turn = t
  /\ call'.ret = (IF call.op = "cleanup"
                    THEN (IF call.args.turn = t THEN call.ret + 1 ELSE 1)
                    ELSE 1)

C11_TurnTerminates ==
  /\ \A t \in Turns :
       (turns[t].pc # "idle") ~> (turns[t].pc = "done" /\ turns[t].status \in {200, 500})
  /\ [](\A t \in Turns :
          /\ turns[t].pc = "done" => turns[t].status \in {200, 500}
          /\ turns[t].pc = "cleanup" =>
               /\ turns[t].status \in {200, 500}
               /\ turns[t].status = 200 =>
                    /\ turns[t].tts = "ok"
                    /\ turns[t].response.provider # "none"
                    /\ turns[t].response.text = turns[t].response_text
               /\ turns[t].status = 500 => turns[t].response = NoResponse
          /\ turns[t].pc \notin {"cleanup", "done"} =>
               /\ turns[t].status = None
               /\ turns[t].response = NoResponse)
  /\ [][\A t \in Turns : turns[t].pc = "done" => turns'[t] = turns[t]]_vars

\* C11 witness: one turn has ended with a failure and another with audio
C11_Witness ==
  \E t, u \in Turns :
    /\ turns[t].pc = "done" /\ turns[t].status = 500
    /\ turns[u].pc = "done" /\ turns[u].status = 200

\* C12: a failure in a step ends the turn at that step.  The failing step
\* writes nothing, the turn goes straight to the finally block with status
\* 500 and no response whatever the step was, and from there it touches the
\* store no more; what the later steps would have done is absent: no message
\* before the user message is added, no model call before generation, no
\* synthesis before the synthesis step.
C12_FailureAborts ==
  /\ [](\A t \in Turns :
          (turns[t].pc = "cleanup" /\ turns[t].failed_at # "none") =>
             LET step == turns[t].failed_at
                 mine == AddedBy(t)
             IN  /\ turns[t].status = 500
                 /\ turns[t].response = NoResponse
                 /\ step = "identity" => turns[t].user = None
                 /\ step \in {"identity", "session"} => turns[t].conversation_id = None
                 /\ step \in {"identity", "session", "context"} => ~files[t].created
                 /\ step \in {"identity", "session", "context", "audio", "transcribe",
                              "user_message"} =>
                      /\ mine = {}
                      /\ (step # "user_message" => turns[t].user_text = <<>>)
                 /\ step \in {"retitle", "assistant_message"} =>
                      /\ Cardinality(mine) = 1
                      /\ \A m \in mine : msgs[m].role = "user"
                 /\ step # "assistant_message" /\ step # "synthesize" =>
                      /\ turns[t].llm = "none"
                      /\ turns[t].llm_calls = 0
                 /\ step # "synthesize" =>
                      /\ turns[t].tts = "none"
                      /\ turns[t].message_id = None
                 /\ step = "synthesize" => turns[t].tts = "error")
  /\ [][\A t \in Turns :
          /\ (turns[t].failed_at = "none" /\ turns'[t].failed_at # "none") =>
               /\ turns'[t].pc = "cleanup"
               /\ turns'[t].status = 500
               /\ msgs' = msgs
               /\ convs' = convs
          /\ turns[t].pc = "cleanup" =>
               /\ turns'[t].pc \in {"cleanup", "done"}
               /\ msgs' = msgs
               /\ convs' = convs]_vars

\* C12 witness: a turn whose transcription failed is about to end: it created
\* its conversation and its temporary file, and the conversation has no message
C12_Witness ==
  \E t \in Turns :
    /\ turns[t].pc = "cleanup"
    /\ turns[t].failed_at = "transcribe"
    /\ turns[t].status = 500
    /\ files[t].exists
    /\ turns[t].conversation_id \in DOMAIN convs
    /\ convs[turns[t].conversation_id].by = t
    /\ Messages(turns[t].conversation_id) = {}

\* C14: a message and the new updated_at of its conversation appear in one
\* step.  Every step that adds a message adds exactly one, at the end, with
\* created_at = now, and in the same step sets updated_at of its conversation
\* to that time and of no other; no step changes an updated_at without adding
\* a message; so no state shows a message newer than its conversation's
\* updated_at.
C14_AddMessageAtomic ==
  /\ [][(msgs' # msgs \/ \E c \in DOMAIN convs : convs'[c].updated_at # convs[c].updated_at) =>
          /\ Len(msgs') = Len(msgs) + 1
          /\ SubSeq(msgs', 1, Len(msgs)) = msgs
          /\ Len(convs') = Len(convs)
          /\ LET m == msgs'[Len(msgs')]
             IN  /\ m.created_at = now
                 /\ m.conversation_id \in DOMAIN convs
                 /\ convs'[m.conversation_id].updated_at = now
                 /\ \A c \in DOMAIN convs :
                      c # m.conversation_id => convs'[c].updated_at = convs[c].updated_at]_vars
  /\ [](\A m \in DOMAIN msgs :
          /\ msgs[m].conversation_id \in DOMAIN convs
          /\ convs[msgs[m].conversation_id].updated_at >= msgs[m].created_at)

\* C14 witness: two turns are in progress in the same conversation; one has
\* added its user message an hour or more after the conversation was created,
\* the other, which has added nothing yet, sees the message and the new
\* updated_at together
C14_Witness ==
  \E t, u \in Turns :
    /\ t # u
    /\ turns[t].pc = "retitle"
    /\ InProgress(u)
    /\ AddedBy(u) = {}
    /\ turns[u].conversation_id = turns[t].conversation_id
    /\ LET c == turns[t].conversation_id
       IN  /\ c \in DOMAIN convs
           /\ convs[c].title # PlaceholderTitle(convs[c].updated_at)
           /\ \E m \in AddedBy(t) :
                /\ msgs[m].conversation_id = c
                /\ msgs[m].created_at = convs[c].updated_at

\* C20: messages are append-only and ordered: a step never changes or removes
\* a message and adds only at the end, and any two messages of one
\* conversation have different created_at, the earlier added the smaller.
C20_AppendOnlyOrdered ==
  /\ [][/\ Len(msgs') >= Len(msgs)
        /\ SubSeq(msgs', 1, Len(msgs)) = msgs]_vars
  /\ [](\A i, j \in DOMAIN msgs :
          (i < j /\ msgs[i].conversation_id = msgs[j].conversation_id) =>
             msgs[i].created_at < msgs[j].created_at)

\* The user messages of conversation c, and the one added first
UserMessages(c) == {i \in Messages(c) : msgs[i].role = "user"}

EarliestUser(c) == CHOOSE i \in UserMessages(c) : \A j \in UserMessages(c) : i <= j

\* C21: whenever no turn stands between the insert of its user message and
\* its retitle step, every conversation with a user message has as title the
\* content of its earliest user message, cut to 50 characters plus "..." if it
\* is longer, and every conversation without messages has a generated
\* placeholder title; also with concurrent turns on one conversation.  (Stated
\* for the runs in which no turn has failed, so that a store error in the
\* retitle step is not what decides it.)
C21_TitleOfFirstMessage ==
  (\A t \in Turns : turns[t].pc # "retitle" /\ turns[t].status # 500) =>
     \A c \in DOMAIN convs :
       /\ UserMessages(c) # {} =>
            LET first == msgs[EarliestUser(c)].content
            IN  convs[c].title =
                  (IF Len(first) <= 50 THEN first
                   ELSE SubSeq(first, 1, 50) \o <<".", ".", ".">>)
       /\ Messages(c) = {} => convs[c].title \in AutoTitles

\* C22: updated_at of an existing conversation changes only in a step that is
\* add_message on that conversation (and then becomes the time of the call);
\* get_or_create_active_conversation, get_conversation_context,
\* generate_conversation_title and add_message on another conversation leave
\* it as it was.
C22_LastActivityFrame ==
  [][\A c \in DOMAIN convs :
       convs'[c].updated_at # convs[c].updated_at =>
          /\ call'.op = "add_message"
          /\ call'.args.conversation_id = c
          /\ Len(msgs') = Len(msgs) + 1
          /\ msgs'[Len(msgs')].conversation_id = c
          /\ convs'[c].updated_at = now]_vars

\* C22 witness: an older conversation with a message and a retitled title has
\* kept its updated_at while a later conversation got a message, the last
\* call being an add_message on the later one
C22_Witness ==
  /\ call.op = "add_message"
  /\ call.at = now
  /\ \E c \in DOMAIN convs :
       /\ c # call.args.conversation_id
       /\ Messages(c) # {}
       /\ ~StartsWith(convs[c].title, PLACEHOLDER_PREFIX)
       /\ convs[c].updated_at = msgs[LastAdded(c)].created_at
       /\ convs[c].updated_at < now
       /\ convs[call.args.conversation_id].updated_at = now

\* The turn took the speech path and failed after its user message was added
FailedLate(t) ==
  /\ turns[t].pc = "cleanup"
  /\ turns[t].llm # "none"
  /\ turns[t].failed_at \in {"assistant_message", "synthesize"}

\* C23: nothing a turn has committed is undone when it fails later.  A turn
\* that fails while adding the assistant message or at synthesis ends with
\* status 500, and the store still has its user message, its assistant message
\* if that was added, the title it wrote if it loaded an empty context, and
\* updated_at of its conversation at the time of its last message; the finally
\* block leaves the store alone and no step ever changes or removes a message.
C23_NoRollback ==
  /\ [](\A t \in Turns : FailedLate(t) =>
          LET c == turns[t].conversation_id
          IN  /\ turns[t].status = 500
              /\ turns[t].response = NoResponse
              /\ c \in DOMAIN convs
              /\ \E m \in AddedBy(t) :
                   /\ msgs[m].role = "user"
                   /\ msgs[m].content = turns[t].user_text
                   /\ msgs[m].conversation_id = c
              /\ Len(turns[t].context) = 0 => convs[c].title = turns[t].user_text
              /\ IF turns[t].failed_at = "synthesize"
                   THEN /\ Cardinality(AddedBy(t)) = 2
                        /\ turns[t].message_id \in AddedBy(t)
                        /\ msgs[turns[t].message_id].role = "assistant"
                        /\ msgs[turns[t].message_id].content = turns[t].response_text
                        /\ convs[c].updated_at = msgs[turns[t].message_id].created_at
                   ELSE /\ Cardinality(AddedBy(t)) = 1
                        /\ \A m \in AddedBy(t) : convs[c].updated_at = msgs[m].created_at)
  /\ [][/\ \A i \in DOMAIN msgs : i \in DOMAIN msgs' /\ msgs'[i] = msgs[i]
        /\ \A t \in Turns : turns[t].pc = "cleanup" => (msgs' = msgs /\ convs' = convs)]_vars

\* C23 witness: a turn that created its conversation and loaded an empty
\* context failed at synthesis: its two messages and its title are in the store
C23_Witness ==
  \E t \in Turns :
    /\ FailedLate(t)
    /\ turns[t].failed_at = "synthesize"
    /\ turns[t].status = 500
    /\ Len(turns[t].context) = 0
    /\ Cardinality(AddedBy(t)) = 2
    /\ convs[turns[t].conversation_id].title = turns[t].user_text

\* C24: the history built for the model comes from the context the turn
\* loaded before transcription and from nothing else.  The context holds one
\* entry for each message that is in the conversation when it is loaded, all
\* of them rows of other turns, since the turn has added none by then; it
\* does not change afterwards, whatever is added to the conversation; the
\* history is its last 5 entries.
C24_HistoryIsSnapshot ==
  /\ [](\A t \in Turns :
          /\ turns[t].pc \in {"idle", "lookup", "create", "context"} =>
               /\ AddedBy(t) = {}
               /\ turns[t].context = <<>>
          /\ turns[t].llm_calls = 1 =>
               LET ctx == turns[t].context
                   h == turns[t].history
                   k == IF Len(ctx) < 5 THEN Len(ctx) ELSE 5
               IN  /\ Len(h) = k
                   /\ \A i \in 1..k : h[i].parts = <<ctx[Len(ctx) - k + i].content>>
          /\ turns[t].llm_calls = 0 => turns[t].history = <<>>)
  /\ [][\A t \in Turns :
          /\ (turns[t].pc = "context" /\ turns'[t].pc = "audio") =>
               /\ Len(turns'[t].context) = Cardinality(Messages(turns[t].conversation_id))
               /\ \A i \in 1..Len(turns'[t].context) :
                    \E m \in Messages(turns[t].conversation_id) :
                      /\ msgs[m].by # t
                      /\ turns'[t].context[i] = [role |-> msgs[m].role,
                                                 content |-> msgs[m].content]
          /\ (turns[t].pc \notin {"idle", "lookup", "create", "context", "cleanup", "done"}) =>
               turns'[t].context = turns[t].context]_vars

\* C24 witness: a turn loaded an empty context, another turn then added its
\* user message to the same conversation, and the first turn called the model
\* with an empty history and added its assistant message after that message
C24_Witness ==
  \E t, u \in Turns :
    /\ t # u
    /\ turns[t].pc = "synthesize"
    /\ turns[t].llm_calls = 1
    /\ turns[t].history = <<>>
    /\ turns[t].message_id \in DOMAIN msgs
    /\ \E m \in AddedBy(u) :
         /\ msgs[m].conversation_id = turns[t].conversation_id
         /\ m < turns[t].message_id
         /\ \A n \in AddedBy(t) : m < n

\* The conversations a turn left without a message
EmptyActive(user_id) == {c \in ActiveNow(user_id) : Messages(c) = {}}

\* C25: the conversation is resolved before transcription, so a turn that
\* created one and then heard no speech or failed at transcription leaves
\* exactly that one new conversation, with no message and its placeholder
\* title.  While it is within the 2 hours the next turn of the user takes it
\* instead of creating one, and that turn's first user message gives it its
\* title.
C25_EmptyConversationReused ==
  /\ [](\A t \in Turns :
          (/\ turns[t].pc = "cleanup"
           /\ NoSpeech(t) \/ turns[t].failed_at = "transcribe"
           /\ turns[t].conversation_id \in DOMAIN convs
           /\ convs[turns[t].conversation_id].by = t) =>
             LET c == turns[t].conversation_id
             IN  /\ Cardinality({d \in DOMAIN convs : convs[d].by = t}) = 1
                 /\ Messages(c) = {}
                 /\ AddedBy(t) = {}
                 /\ convs[c].title = PlaceholderTitle(convs[c].updated_at))
  /\ [][\A u \in Turns :
          /\ (turns[u].pc = "lookup" /\ turns'[u].pc # "lookup"
              /\ turns'[u].failed_at = "none" /\ EmptyActive(turns[u].user) # {}) =>
               /\ turns'[u].pc = "context"
               /\ turns'[u].conversation_id \in EmptyActive(turns[u].user)
               /\ convs' = convs
          /\ (turns[u].pc = "retitle" /\ turns'[u].pc = "generate"
              /\ convs[turns[u].conversation_id].by # u) =>
               convs'[turns[u].conversation_id].title = turns[u].user_text]_vars

\* C25 witness: the first turn heard no speech and ended; within the 2 hours
\* the next turn took the conversation the first had created, and its text is
\* now the title of that conversation, the only one there is
C25_Witness ==
  \E t, u \in Turns :
    /\ turns[t].pc = "done"
    /\ turns[t].status = 200
    /\ turns[u].pc = "generate"
    /\ Len(convs) = 1
    /\ turns[u].conversation_id = 1
    /\ convs[1].by = t
    /\ now > 0
    /\ AddedBy(t) = {}
    /\ convs[1].title = turns[u].user_text

====
